---- MODULE Spec2Model ----
(***************************************************************************)
(* School management API (PM-Devs/sms): the user directory, the credential *)
(* hasher, the token issuer/verifier and the authentication endpoints of   *)
(* services.py and main.py, as a state machine over the users collection,  *)
(* the logout audit collection, the transactions collection, the settings  *)
(* collection, the wall clock, the tokens handed out, the create_user      *)
(* tasks in flight and the settings updates in flight.                     *)
(*                                                                         *)
(* Values.  A MongoDB document is a function from the names of the fields  *)
(* it has to their values; an absent field is a name outside its DOMAIN.   *)
(* The _id of a stored user is its key in users.  ObjectId k is            *)
(* <<"oid", k>>, None is <<"none", 0>>, the 24-hex string of ObjectId k is *)
(* <<"hex", k>> and any other string n is <<"text", n>>.  A plaintext      *)
(* string p is <<"str", p, "">> where a password field holds it, and the   *)
(* bytes bcrypt.hashpw returns for p under salt s are <<"bcrypt", p, s>>.  *)
(* An email is the sequence of its characters.                             *)
(***************************************************************************)
EXTENDS Integers, Sequences, FiniteSets, TLC

VARIABLES users, nextId, now, tokens, logout_logs, transactions, tasks, settings,
          upserts, last

vars == <<users, nextId, now, tokens, logout_logs, transactions, tasks, settings,
         upserts, last>>

-----------------------------------------------------------------------------
(* Bounds of the model *)

MaxUsers == 2          \* inserts into db.users over a run
MaxTokens == 1         \* tokens handed out over a run
MaxLogouts == 1        \* records appended to db.logout_logs over a run
TicksPerSecond == 2    \* resolution of the clock: ticks in one second
MaxTransactions == 4   \* inserts into db.transactions over a run
MaxRuns == 2           \* payroll runs in a row for one period
MaxTasks == 2          \* create_user coroutines started over a run
MaxUpserts == 3        \* update_system_settings calls over a run

-----------------------------------------------------------------------------
(* models.py *)

UserRole == {"admin", "teacher", "student", "support", "temporary"}

NoneId == <<"none", 0>>

\* str(x) of an ObjectId or of None
StrOfId(v) == IF v[1] = "oid" THEN <<"hex", v[2]>> ELSE <<"text", 0>>

\* bson.ObjectId(s) accepts the 24-hex strings only; anything else is InvalidId
ObjectIdValid(s) == s[1] = "hex"

ObjectIdOf(s) == <<"oid", s[2]>>

\* pydantic's EmailStr: one "@", a local part, a dotted domain of non-empty labels
EmailStrOk(e) ==
    /\ Cardinality({i \in 1..Len(e) : e[i] = "@"}) = 1
    /\ LET at == CHOOSE i \in 1..Len(e) : e[i] = "@"
       IN  /\ at > 1
           /\ at < Len(e)
           /\ e[1] # "." /\ e[at - 1] # "."
           /\ e[at + 1] # "." /\ e[Len(e)] # "."
           /\ \E j \in (at + 1)..Len(e) : e[j] = "."
           /\ \A j \in 1..(Len(e) - 1) : ~(e[j] = "." /\ e[j + 1] = ".")

\* BaseModelWithId.id: alias "_id" with validation_alias "id".  Validation reads the
\* validation alias (and, with populate_by_name, the field name): both are "id", so
\* the "_id" key of a stored document is an extra key, ignored, and id keeps its
\* default None.
IdValidationKeys == {"id"}

\* the id of User(**doc) for the stored document whose _id is ObjectId k
ModelId(k) == IF "_id" \in IdValidationKeys THEN <<"oid", k>> ELSE NoneId

\* User(**doc) raises ValidationError unless every field present passes its type
UserValid(doc) ==
    /\ ("role" \in DOMAIN doc) => doc["role"] \in UserRole
    /\ ("email" \in DOMAIN doc) => EmailStrOk(doc["email"])
    /\ ("is_active" \in DOMAIN doc) => doc["is_active"] \in BOOLEAN

\* User(**doc) of the stored document with _id ObjectId k: its id and its fields
UserModel(k, doc) == [id |-> ModelId(k), doc |-> doc]

-----------------------------------------------------------------------------
(* services.py: names bound at module level, bcrypt, the users collection *)

ModuleGlobals ==
    {"asyncio", "AsyncIOMotorClient", "load_dotenv", "ObjectId", "os", "datetime",
     "timedelta", "Any", "Dict", "List", "Optional", "logging", "bcrypt", "User",
     "Profile", "Transaction", "Transactions", "InventoryItem", "Book", "Message",
     "Bus", "BusRoute", "Course", "Timetable", "SystemLog", "Settings", "Logout",
     "ProfileSettings", "UserRole", "PyObjectId", "jwt", "SECRET_KEY", "ALGORITHM",
     "ACCESS_TOKEN_EXPIRE_MINUTES", "logger", "mongo_uri", "database_name",
     "client", "db"}

\* evaluating a global name that the module never binds raises NameError
NameBound(n) == n \in ModuleGlobals

\* bcrypt.gensalt() is fresh on every call: the salt of the n-th insert is n
\* bcrypt.hashpw(p.encode(), salt)
Hashpw(p, salt) == <<"bcrypt", p, salt>>

\* bcrypt.checkpw(p.encode(), stored): TypeError when stored is a str, not bytes
Checkpw(p, stored) ==
    IF stored[1] # "bcrypt" THEN "TypeError"
    ELSE IF stored[2] = p THEN "match" ELSE "mismatch"

\* re.match(r"[^@]+@[^@]+\.[^@]+", e): some prefix of e has the shape
EmailShapeOk(e) ==
    \E i \in 2..Len(e) : \E j \in (i + 2)..(Len(e) - 1) :
        /\ e[i] = "@"
        /\ \A k \in 1..(i - 1) : e[k] # "@"
        /\ e[j] = "."
        /\ \A k \in (i + 1)..(j - 1) : e[k] # "@"
        /\ e[j + 1] # "@"

Ids == DOMAIN users

\* a document matches {f: v} when it has the field f with the value v
HasField(doc, f, v) == f \in DOMAIN doc /\ doc[f] = v

\* the documents of db.users that the queries of services.py select
\* {"_id": ObjectId k}
ById(us, k) == {i \in DOMAIN us : i = k}

\* {"_id": ObjectId k, "role": "student"}
StudentById(us, k) == {i \in DOMAIN us : i = k /\ HasField(us[i], "role", "student")}

\* {"username": u}
ByUsername(us, u) == {i \in DOMAIN us : HasField(us[i], "username", u)}

\* {"$or": [{"username": u}, {"email": e}]}
ByUsernameOrEmail(us, u, e) ==
    {i \in DOMAIN us : HasField(us[i], "username", u) \/ HasField(us[i], "email", e)}

\* insert_one: the driver gives the document a fresh ObjectId
InsertOne(us, id, doc) == [i \in DOMAIN us \cup {id} |-> IF i = id THEN doc ELSE us[i]]

\* {"$set": upd} on the document id
SetOne(us, id, upd) == [us EXCEPT ![id] = upd @@ us[id]]

DeleteOne(us, id) == [i \in DOMAIN us \ {id} |-> us[i]]

-----------------------------------------------------------------------------
(* Inputs *)

Usernames == {"alice", "bob"}

Plaintexts == {"longenough1", "longenough2"}

GoodEmail == <<"a", "@", "x", ".", "c">>

BadEmail == <<"a", "@", "x">>

NoFields == <<>>

\* the documents with, for each field, one of the values given or no such field
Opt(f, S) == {(f :> v) : v \in S} \cup {NoFields}

Docs(U, P, E, R) ==
    {u @@ p @@ e @@ r : u \in Opt("username", U),
                        p \in Opt("password", {<<"str", x, "">> : x \in P}),
                        e \in Opt("email", E), r \in Opt("role", R)}

\* the id strings a caller passes: the 24-hex strings of ids and the string "None"
IdStrings == {<<"hex", k>> : k \in 1..MaxUsers} \cup {<<"text", 0>>}

CreatePayloads == Docs({"alice"}, {"longenough1"}, {GoodEmail, BadEmail}, {"student", "bogus"})

\* payloads of add_student and add_employee: a username, maybe an email
AddPayloads ==
    {u @@ e : u \in {("username" :> x) : x \in Usernames}, e \in Opt("email", {GoodEmail})}

Updates == {("username" :> "alice"), ("email" :> GoodEmail)}

\* payloads of add_student and add_employee: a username, maybe a password
AuthPayloads ==
    {u @@ q : u \in {("username" :> x) : x \in Usernames},
              q \in Opt("password", {<<"str", "longenough1", "">>})}

\* payloads of add_employee: those, and one whose role is none of the five
EmployeePayloads ==
    AuthPayloads \cup
        {[username |-> "bob", password |-> <<"str", "longenough1", "">>,
          role |-> "bogus"]}

\* payloads of add_student: a username
BearerPayloads == {("username" :> x) : x \in Usernames}

-----------------------------------------------------------------------------
(* services.py: the user directory *)

Init ==
    /\ users = <<>>
    /\ nextId = 1
    /\ now = 0
    /\ tokens = {}
    /\ logout_logs = <<>>
    /\ transactions = <<>>
    /\ tasks = <<>>
    /\ settings = <<>>
    /\ upserts = <<>>
    /\ last = [op |-> "init"]

\* the password of a payload hashed where the payload has one
WithHashedPassword(data) ==
    IF "password" \in DOMAIN data
    THEN ("password" :> Hashpw(data["password"][2], nextId)) @@ data
    ELSE data

\* create_user(user_data): what it raises or returns, and the collection after it
create_user(user_data) ==
    LET failed(e) == [res |-> e, users |-> users, id |-> NoneId]
        dup == ByUsernameOrEmail(users, user_data["username"], user_data["email"])
        user_doc == [username |-> user_data["username"],
                     email |-> user_data["email"],
                     password |-> Hashpw(user_data["password"][2], nextId),
                     role |-> user_data["role"],
                     is_active |-> TRUE,
                     created_at |-> now,
                     updated_at |-> now]
    IN  IF {"username", "password", "email", "role"} \ DOMAIN user_data # {}
        THEN failed("ValueError: Missing required field")
        ELSE IF user_data["role"] \notin UserRole
        THEN failed("ValueError: Invalid user role")
        ELSE IF ~NameBound("re")
        THEN failed("NameError: name 're' is not defined")
        ELSE IF ~EmailShapeOk(user_data["email"])
        THEN failed("ValueError: Invalid email format")
        ELSE IF dup # {}
        THEN failed("ValueError: Username or email already exists")
        ELSE [res |-> "ok", users |-> InsertOne(users, nextId, user_doc),
              id |-> <<"hex", nextId>>]

\* main.register_user: {user_id} on success, 400 on any exception
register_user(res) == IF res = "ok" THEN 200 ELSE 400

CreateUser(user_data) ==
    LET r == create_user(user_data)
    IN  /\ r.res = "ok" => nextId <= MaxUsers
        /\ users' = r.users
        /\ nextId' = IF r.res = "ok" THEN nextId + 1 ELSE nextId
        /\ last' = [op |-> "create_user", data |-> user_data, res |-> r.res,
                    id |-> r.id, changed |-> r.users # users]
        /\ UNCHANGED <<now, tokens, logout_logs, transactions, tasks, settings, upserts>>

RegisterUser(role, user_data) ==
    LET data == ("role" :> role) @@ user_data
        r == create_user(data)
    IN  /\ r.res = "ok" => nextId <= MaxUsers
        /\ users' = r.users
        /\ nextId' = IF r.res = "ok" THEN nextId + 1 ELSE nextId
        /\ last' = [op |-> "register_user", data |-> data, res |-> r.res,
                    id |-> r.id, changed |-> r.users # users,
                    http |-> register_user(r.res)]
        /\ UNCHANGED <<now, tokens, logout_logs, transactions, tasks, settings, upserts>>

AddStudent(student_data) ==
    LET doc == WithHashedPassword(("role" :> "student") @@ student_data)
    IN  /\ nextId <= MaxUsers
        /\ users' = InsertOne(users, nextId, doc)
        /\ nextId' = nextId + 1
        /\ last' = [op |-> "add_student", data |-> student_data, res |-> "ok",
                    id |-> <<"hex", nextId>>]
        /\ UNCHANGED <<now, tokens, logout_logs, transactions, tasks, settings, upserts>>

AddEmployee(employee_data) ==
    LET doc == WithHashedPassword(employee_data)
    IN  /\ nextId <= MaxUsers
        /\ users' = InsertOne(users, nextId, doc)
        /\ nextId' = nextId + 1
        /\ last' = [op |-> "add_employee", data |-> employee_data, res |-> "ok",
                    id |-> <<"hex", nextId>>]
        /\ UNCHANGED <<now, tokens, logout_logs, transactions, tasks, settings, upserts>>

\* update_one(filter, {"$set": upd}): the collection after it and the counts reported
UpdateOne(us, matched, upd) ==
    IF matched = {}
    THEN [users |-> us, matched_count |-> 0, modified_count |-> 0]
    ELSE LET id == CHOOSE i \in matched : TRUE
             after == SetOne(us, id, upd)
         IN  [users |-> after, matched_count |-> 1,
              modified_count |-> IF after = us THEN 0 ELSE 1]

\* the handlers of main.py that raise their own 404 inside the try block whose
\* except clause turns every exception into a 400
status_of_update(res) == IF res = "True" THEN 200 ELSE 400

Bool(b) == IF b THEN "True" ELSE "False"

\* update_student(student_id, update_data)
update_student(student_id, update_data) ==
    IF ~ObjectIdValid(student_id)
    THEN [res |-> "InvalidId", users |-> users]
    ELSE LET r == UpdateOne(users, StudentById(users, ObjectIdOf(student_id)[2]),
                            update_data)
         IN  [res |-> Bool(r.modified_count > 0), users |-> r.users]

\* update_employee(employee_id, update_data) and update_user_profile(user_id,
\* profile_data): the same statement on the document with that _id, whatever its role
update_by_id(user_id, update_data) ==
    IF ~ObjectIdValid(user_id)
    THEN [res |-> "InvalidId", users |-> users]
    ELSE LET r == UpdateOne(users, ById(users, ObjectIdOf(user_id)[2]), update_data)
         IN  [res |-> Bool(r.modified_count > 0), users |-> r.users]

\* delete_student whose archive mode replaces the document by {"is_active": False}
delete_student_replacing(student_id, archive) ==
    IF ~ObjectIdValid(student_id)
    THEN [res |-> "InvalidId", users |-> users]
    ELSE LET m == StudentById(users, ObjectIdOf(student_id)[2])
         IN  IF m = {}
             THEN [res |-> "False", users |-> users]
             ELSE LET k == CHOOSE i \in m : TRUE
                  IN  IF archive
                      THEN [res |-> "True",
                            users |-> [users EXCEPT ![k] = ("is_active" :> FALSE)]]
                      ELSE [res |-> "True", users |-> DeleteOne(users, k)]

\* delete_student(student_id, archive)
delete_student(student_id, archive) ==
    IF ~ObjectIdValid(student_id)
    THEN [res |-> "InvalidId", users |-> users]
    ELSE LET m == StudentById(users, ObjectIdOf(student_id)[2])
         IN  IF archive
             THEN LET r == UpdateOne(users, m, ("is_active" :> FALSE))
                  IN  [res |-> Bool(r.modified_count > 0), users |-> r.users]
             ELSE IF m = {}
             THEN [res |-> "False", users |-> users]
             ELSE [res |-> "True", users |-> DeleteOne(users, CHOOSE i \in m : TRUE)]

UpdateStudent(student_id, update_data) ==
    LET r == update_student(student_id, update_data)
    IN  /\ users' = r.users
        /\ last' = [op |-> "update_student", id |-> student_id, data |-> update_data,
                    res |-> r.res, http |-> status_of_update(r.res)]
        /\ UNCHANGED <<nextId, now, tokens, logout_logs, transactions, tasks, settings, upserts>>

UpdateEmployee(employee_id, update_data) ==
    LET r == update_by_id(employee_id, update_data)
    IN  /\ users' = r.users
        /\ last' = [op |-> "update_employee", id |-> employee_id, data |-> update_data,
                    res |-> r.res, http |-> status_of_update(r.res)]
        /\ UNCHANGED <<nextId, now, tokens, logout_logs, transactions, tasks, settings, upserts>>

UpdateUserProfile(user_id, profile_data) ==
    LET r == update_by_id(user_id, profile_data)
    IN  /\ users' = r.users
        /\ last' = [op |-> "update_user_profile", id |-> user_id, data |-> profile_data,
                    res |-> r.res, http |-> status_of_update(r.res)]
        /\ UNCHANGED <<nextId, now, tokens, logout_logs, transactions, tasks, settings, upserts>>

DeleteStudent(student_id, archive) ==
    LET r == delete_student(student_id, archive)
    IN  /\ users' = r.users
        /\ last' = [op |-> "delete_student", id |-> student_id, archive |-> archive,
                    res |-> r.res, http |-> status_of_update(r.res)]
        /\ UNCHANGED <<nextId, now, tokens, logout_logs, transactions, tasks, settings, upserts>>

-----------------------------------------------------------------------------
(* services.py: the token issuer and verifier, authentication, logout *)

SECRET_KEY == "secret"

ACCESS_TOKEN_EXPIRE_MINUTES == 30

\* timedelta(minutes=ACCESS_TOKEN_EXPIRE_MINUTES), in ticks
Lifetime == ACCESS_TOKEN_EXPIRE_MINUTES * 60 * TicksPerSecond

\* the readings of datetime.utcnow() a run goes through: the first second, where
\* tokens are issued, and the instants around the end of a token's lifetime
Instants == {0, 1, Lifetime - 1, Lifetime, Lifetime + 1, Lifetime + 2}

\* jwt.encode turns the datetime of "exp" into whole seconds since the epoch
\* (timegm(exp.utctimetuple())): the fraction of a second is dropped
NumericDate(t) == t \div TicksPerSecond

\* jwt.encode(payload, key, algorithm="HS256")
JwtEncode(payload, key) ==
    [sub |-> payload.sub, role |-> payload.role, exp |-> NumericDate(payload.exp),
     key |-> key]

\* generate_access_token(user_id, role)
generate_access_token(user_id, role) ==
    LET expire == now + Lifetime
        to_encode == [sub |-> user_id, role |-> role, exp |-> expire]
    IN  JwtEncode(to_encode, SECRET_KEY)

\* jwt.decode that still accepts a token at the instant of its exp
JwtDecodeInclusive(token, key) ==
    IF token.key # key THEN "InvalidTokenError"
    ELSE IF token.exp * TicksPerSecond < now THEN "ExpiredSignatureError"
    ELSE "payload"

\* jwt.decode(token, key, algorithms=["HS256"]): the signature, then exp <= now
JwtDecode(token, key) ==
    IF token.key # key THEN "InvalidTokenError"
    ELSE IF token.exp * TicksPerSecond <= now THEN "ExpiredSignatureError"
    ELSE "payload"

NonePayload == [sub |-> "None", role |-> "None", exp |-> 0]

\* verify_access_token that also rejects the tokens of a subject who logged out
verify_access_token_revoking(token) ==
    IF /\ JwtDecode(token, SECRET_KEY) = "payload"
       /\ \A i \in 1..Len(logout_logs) :
              logout_logs[i].user_id # <<"oid", token.sub[2]>>
    THEN [sub |-> token.sub, role |-> token.role, exp |-> token.exp]
    ELSE NonePayload

\* verify_access_token(token): the payload, or None for either exception
verify_access_token(token) ==
    IF JwtDecode(token, SECRET_KEY) = "payload"
    THEN [sub |-> token.sub, role |-> token.role, exp |-> token.exp]
    ELSE NonePayload

IsNone(payload) == payload = NonePayload

\* get_user_by_id(user_id)
get_user_by_id(user_id) ==
    IF ~ObjectIdValid(user_id) THEN [res |-> "InvalidId"]
    ELSE LET m == ById(users, ObjectIdOf(user_id)[2])
         IN  IF m = {} THEN [res |-> "None"]
             ELSE LET k == CHOOSE i \in m : TRUE
                  IN  IF UserValid(users[k])
                      THEN [res |-> "user", user |-> UserModel(k, users[k])]
                      ELSE [res |-> "ValidationError"]

\* the role of a User model: its role field, None when the document has none
RoleOf(doc) == IF "role" \in DOMAIN doc THEN doc["role"] ELSE "None"

\* authenticate_user(username, password) when find_one gave the document k
\* (k = 0: it gave None)
authenticate_user(k, password) ==
    IF k = 0 THEN [res |-> "None"]
    ELSE IF "password" \notin DOMAIN users[k] THEN [res |-> "KeyError: 'password'"]
    ELSE LET c == Checkpw(password, users[k]["password"])
         IN  IF c = "TypeError" THEN [res |-> "TypeError"]
             ELSE IF c = "mismatch" THEN [res |-> "None"]
             ELSE IF ~UserValid(users[k]) THEN [res |-> "ValidationError"]
             ELSE LET user_obj == UserModel(k, users[k])
                  IN  [res |-> "token", user |-> user_obj,
                       access_token |->
                           generate_access_token(StrOfId(user_obj.id),
                                                 RoleOf(user_obj.doc))]

\* main.login: the 401 it raises for a None result is raised inside the try block,
\* whose except clause turns every exception into a 500
login(auth_result) ==
    IF auth_result.res = "token"
    THEN [status |-> 200, access_token |-> auth_result.access_token,
          token_type |-> "bearer", user_role |-> RoleOf(auth_result.user.doc)]
    ELSE [status |-> 500]

\* get_current_user that takes the user from the payload, not from the directory
get_current_user_from_payload(token) ==
    LET payload == verify_access_token(token)
    IN  IF IsNone(payload) THEN [res |-> "401"]
        ELSE [res |-> "user",
              user |-> [id |-> payload.sub, doc |-> ("role" :> payload.role)]]

\* main.get_current_user: the user, or the 401 credentials exception
get_current_user(token) ==
    LET payload == verify_access_token(token)
    IN  IF IsNone(payload) THEN [res |-> "401"]
        ELSE LET r == get_user_by_id(payload.sub)
             IN  IF r.res = "user" THEN r ELSE [res |-> "401"]

\* a token some party signed with another key
Forged(token) == [token EXCEPT !.key = "other"]

Presentable == {t.tok : t \in tokens} \cup {Forged(t.tok) : t \in tokens}

\* the stored user a subject names, 0 when it names none
Named(sub) == IF sub[1] = "hex" /\ sub[2] \in Ids THEN sub[2] ELSE 0

GenerateAccessToken(user_id, role) ==
    /\ Cardinality(tokens) < MaxTokens
    /\ now < TicksPerSecond
    /\ LET t == generate_access_token(user_id, role)
       IN  /\ tokens' = tokens \cup {[tok |-> t, at |-> now,
                                      by |-> "generate_access_token",
                                      uid |-> Named(user_id)]}
           /\ last' = [op |-> "generate_access_token", token |-> t]
    /\ UNCHANGED <<users, nextId, now, logout_logs, transactions, tasks, settings, upserts>>

VerifyAccessToken(token) ==
    /\ last' = [op |-> "verify_access_token", token |-> token,
                res |-> verify_access_token(token)]
    /\ UNCHANGED <<users, nextId, now, tokens, logout_logs, transactions, tasks, settings, upserts>>

GetCurrentUser(token) ==
    /\ last' = [op |-> "get_current_user", token |-> token,
                res |-> get_current_user(token)]
    /\ UNCHANGED <<users, nextId, now, tokens, logout_logs, transactions, tasks, settings, upserts>>

Login(username, password) ==
    LET found == ByUsername(users, username)
    IN  \E k \in (IF found = {} THEN {0} ELSE found) :
            LET r == authenticate_user(k, password)
            IN  /\ r.res = "token" =>
                       /\ Cardinality(tokens) < MaxTokens
                       /\ now < TicksPerSecond
                /\ tokens' = IF r.res = "token"
                             THEN tokens \cup {[tok |-> r.access_token, at |-> now,
                                                by |-> "login", uid |-> k]}
                             ELSE tokens
                /\ last' = [op |-> "login", username |-> username,
                            password |-> password, uid |-> k, res |-> r,
                            http |-> login(r)]
                /\ UNCHANGED <<users, nextId, now, logout_logs, transactions, tasks, settings, upserts>>

\* handle_user_logout(user_id)
HandleUserLogout(user_id) ==
    /\ IF ~ObjectIdValid(user_id)
       THEN /\ last' = [op |-> "handle_user_logout", id |-> user_id,
                        res |-> "InvalidId"]
            /\ UNCHANGED logout_logs
       ELSE /\ Len(logout_logs) < MaxLogouts
            /\ logout_logs' = Append(logout_logs, [user_id |-> ObjectIdOf(user_id),
                                                   logout_time |-> now])
            /\ last' = [op |-> "handle_user_logout", id |-> user_id, res |-> "ok"]
    /\ UNCHANGED <<users, nextId, now, tokens, transactions, tasks, settings, upserts>>

\* time passes
Tick ==
    /\ \E t \in Instants : t > now /\ now' = t
    /\ last' = [op |-> "tick"]
    /\ UNCHANGED <<users, nextId, tokens, logout_logs, transactions, tasks, settings, upserts>>

-----------------------------------------------------------------------------
(* The user directory on its own: every way a record enters or changes *)

NextDir ==
    \/ \E d \in CreatePayloads : CreateUser(d)
    \/ \E r \in {"student", "bogus"}, d \in CreatePayloads : RegisterUser(r, d)
    \/ \E d \in AddPayloads : AddStudent(d)
    \/ \E d \in AddPayloads : AddEmployee(d)
    \/ \E i \in IdStrings, u \in Updates : UpdateStudent(i, u)
    \/ \E i \in IdStrings, u \in Updates : UpdateEmployee(i, u)
    \/ \E i \in IdStrings, u \in Updates : UpdateUserProfile(i, u)
    \/ \E i \in IdStrings, a \in BOOLEAN : DeleteStudent(i, a)

SpecDir == Init /\ [][NextDir]_vars

-----------------------------------------------------------------------------
(* Claims about the user directory, checked under SpecDir *)

Created == last.op \in {"create_user", "register_user"}

\* a registration payload with the four fields, a known role and a well-shaped email
ValidPayload(d) ==
    /\ {"username", "password", "email", "role"} \subseteq DOMAIN d
    /\ d["role"] \in UserRole
    /\ EmailShapeOk(d["email"])

\* the records that were stored before the last create_user ran
StoredBefore == IF Created /\ last.res = "ok" THEN Ids \ {last.id[2]} ELSE Ids

\* some record stored before the call has the candidate's username or its email
Taken(d) ==
    \E i \in StoredBefore :
        \/ "username" \in DOMAIN d /\ HasField(users[i], "username", d["username"])
        \/ "email" \in DOMAIN d /\ HasField(users[i], "email", d["email"])

\* C1: a valid registration payload whose username and email are not stored yet
\* makes create_user succeed: it returns the id of a newly inserted record, whose
\* password is not the plaintext password.
C1_ValidUniqueRegistrationSucceeds ==
    (Created /\ ValidPayload(last.data) /\ ~Taken(last.data)) =>
        /\ last.res = "ok"
        /\ last.id[1] = "hex" /\ last.id[2] \in Ids
        /\ users[last.id[2]]["password"] # last.data["password"]

\* C7: in every reachable state no two distinct user records share a username and
\* no two share an email.
C7_UsernameAndEmailUnique ==
    \A i, j \in Ids :
        i # j =>
            /\ \A f \in {"username", "email"} :
                   (f \in DOMAIN users[i] /\ f \in DOMAIN users[j]) =>
                       users[i][f] # users[j][f]

\* C8: create_user fails with the conflict error whenever a stored user already has
\* the candidate's username or the candidate's email, and then no record is inserted
\* or changed.
C8_DuplicateIsConflict ==
    (Created /\ ValidPayload(last.data) /\ Taken(last.data)) =>
        /\ last.res = "ValueError: Username or email already exists"
        /\ ~last.changed

ValidationErrors ==
    {"ValueError: Missing required field", "ValueError: Invalid user role",
     "ValueError: Invalid email format"}

\* C9: create_user fails with a validation error, and inserts nothing, whenever a
\* required field is absent, the role is not one of the five, or the email fails
\* the shape check, whether or not the username or email is already stored.
C9_InvalidIsValidationError ==
    (Created /\ ~ValidPayload(last.data)) =>
        /\ last.res \in ValidationErrors
        /\ ~last.changed

-----------------------------------------------------------------------------
(* Tokens on their own: issue, verify, logout, the clock *)

NextToken ==
    \/ \E i \in IdStrings : GenerateAccessToken(i, "student")
    \/ \E t \in Presentable : VerifyAccessToken(t)
    \/ \E i \in IdStrings : HandleUserLogout(i)
    \/ Tick

SpecToken == Init /\ [][NextToken]_vars

-----------------------------------------------------------------------------
(* Claims about tokens, checked under SpecToken *)

Verified == last.op = "verify_access_token"

\* C4: a token issued by generate_access_token at time T verifies at every check
\* time in [T, T + 30 min) and is rejected at every check time >= T + 30 min.
C4_ValidForThirtyMinutes ==
    \A t \in tokens :
        (Verified /\ last.token = t.tok) =>
            IF now < t.at + Lifetime THEN ~IsNone(last.res) ELSE IsNone(last.res)

\* the end of the lifetime of a token issued at time T: T + 30 min, less its
\* fraction of a second
Expiry(T) == ((T + Lifetime) \div TicksPerSecond) * TicksPerSecond

\* C4, amended: a token issued at time T verifies at every check time in [T, E)
\* and is rejected at every check time >= E, where E is T + 30 min rounded down
\* to the whole second.
C4_ValidUntilWholeSecond ==
    \A t \in tokens :
        (Verified /\ last.token = t.tok) =>
            IF now < Expiry(t.at)
            THEN last.res = [sub |-> t.tok.sub, role |-> t.tok.role, exp |-> t.tok.exp]
            ELSE IsNone(last.res)

\* a token is rejected within 30 minutes of its issue, in the last fraction of a second
C4_Witness ==
    \E t \in tokens :
        /\ Verified /\ last.token = t.tok
        /\ Expiry(t.at) <= now /\ now < t.at + Lifetime
        /\ IsNone(last.res)

\* what a call of handle_user_logout changes
C6_LogoutStep ==
    last'.op = "handle_user_logout" =>
        /\ UNCHANGED <<users, nextId, now, tokens, transactions, tasks, settings, upserts>>
        /\ IF last'.res = "ok"
           THEN logout_logs' = Append(logout_logs,
                                      [user_id |-> ObjectIdOf(last'.id),
                                       logout_time |-> now])
           ELSE UNCHANGED logout_logs
        /\ \A t \in Presentable : verify_access_token(t)' = verify_access_token(t)

\* a token whose subject logged out after it was issued
LoggedOut(t) ==
    \E i \in 1..Len(logout_logs) :
        /\ StrOfId(logout_logs[i].user_id) = t.tok.sub
        /\ logout_logs[i].logout_time >= t.at

\* C6: logout never invalidates a token: a call of handle_user_logout appends one
\* record to the logout audit collection and changes nothing else, no token
\* verifies differently after it, and a token whose subject has logged out still
\* verifies until its expiry.
C6_LogoutNeverInvalidates ==
    /\ [][C6_LogoutStep]_vars
    /\ [](\A t \in tokens :
             (LoggedOut(t) /\ now < Expiry(t.at)) =>
                 ~IsNone(verify_access_token(t.tok)))

\* right after the logout of a token's subject the token still verifies
C6_Witness ==
    \E t \in tokens :
        /\ last.op = "handle_user_logout" /\ last.res = "ok"
        /\ last.id = t.tok.sub
        /\ LoggedOut(t)
        /\ ~IsNone(verify_access_token(t.tok))

-----------------------------------------------------------------------------
(* Authentication: users with and without a password log in and present tokens *)

NextAuth ==
    \/ \E d \in AuthPayloads : AddStudent(d)
    \/ \E d \in EmployeePayloads : AddEmployee(d)
    \/ \E i \in IdStrings : DeleteStudent(i, FALSE)
    \/ \E u \in Usernames, q \in Plaintexts : Login(u, q)
    \/ \E t \in Presentable : GetCurrentUser(t)
    \/ Tick

SpecAuth == Init /\ [][NextAuth]_vars

(* Bearer tokens: students come and go while tokens naming them are presented *)

NextBearer ==
    \/ \E d \in BearerPayloads : AddStudent(d)
    \/ \E i \in IdStrings, a \in BOOLEAN : DeleteStudent(i, a)
    \/ \E i \in IdStrings : GenerateAccessToken(i, "student")
    \/ \E t \in Presentable : GetCurrentUser(t)
    \/ Tick

SpecBearer == Init /\ [][NextBearer]_vars

-----------------------------------------------------------------------------
(* Claims about authentication, checked under SpecAuth and SpecBearer *)

LoggedIn == last.op = "login"

\* the document find_one gave holds the digest of the password presented
RightPassword ==
    /\ last.uid # 0
    /\ "password" \in DOMAIN users[last.uid]
    /\ users[last.uid]["password"][1] = "bcrypt"
    /\ users[last.uid]["password"][2] = last.password

\* C2: for every stored user, authenticate_user with the correct password succeeds
\* with a token, and authenticate_user with a wrong password has the same outcome
\* as authenticate_user with an unknown username.
C2_LoginOutcomes ==
    LoggedIn =>
        IF RightPassword THEN last.res.res = "token" ELSE last.res.res = "None"

\* the token has not reached its exp
Unexpired(t) == now < t.tok.exp * TicksPerSecond

\* C3: after a successful login the token's subject is the stored id of the user who
\* logged in and its role is that user's role, and get_current_user on the token,
\* before it expires and while the user exists, returns that user's record.
C3_LoginTokenNamesUser ==
    /\ (LoggedIn /\ last.res.res = "token") =>
           /\ last.res.access_token.sub = <<"hex", last.uid>>
           /\ last.res.access_token.role = RoleOf(users[last.uid])
    /\ \A t \in tokens :
           (/\ last.op = "get_current_user" /\ last.token = t.tok
            /\ t.by = "login" /\ Unexpired(t) /\ t.uid \in Ids) =>
               /\ last.res.res = "user"
               /\ last.res.user.doc = users[t.uid]

\* C5: get_current_user on a correctly signed, unexpired token whose subject was
\* stored when the token was issued and has been physically deleted since yields
\* the 401 outcome, never a user record.
C5_DeletedSubjectIsUnauthenticated ==
    \A t \in tokens :
        (/\ last.op = "get_current_user" /\ last.token = t.tok
         /\ Unexpired(t) /\ t.uid # 0 /\ t.uid \notin Ids) =>
            last.res = [res |-> "401"]

C5_Witness ==
    \E t \in tokens :
        /\ last.op = "get_current_user" /\ last.token = t.tok
        /\ Unexpired(t) /\ t.uid # 0 /\ t.uid \notin Ids
        /\ last.res = [res |-> "401"]

\* C10: POST /token answers an unknown username or a wrong password with the 401
\* authentication failure, and a successful login with access_token, token_type
\* "bearer" and the user's role.
C10_LoginResponses ==
    LoggedIn =>
        IF last.res.res = "token"
        THEN /\ last.http.status = 200
             /\ last.http.access_token = last.res.access_token
             /\ last.http.token_type = "bearer"
             /\ last.http.user_role = RoleOf(users[last.uid])
        ELSE (last.res.res = "None") => last.http.status = 401

-----------------------------------------------------------------------------
(* GET /users/{role}: the caller's role is checked, then the users are listed *)

\* the strings main.list_users_by_role compares the caller's role with
ListRoles == {"ADMIN", "SUPPORT_STAFF"}

\* the elements of a set of ids in ascending order: the order find() returns
\* the documents of a collection nobody sorts
RECURSIVE Ascending(_)
Ascending(S) ==
    IF S = {} THEN <<>>
    ELSE LET m == CHOOSE x \in S : \A y \in S : x <= y
         IN  <<m>> \o Ascending(S \ {m})

\* cursor.skip(skip).limit(limit).to_list(limit)
Page(seq, skip, limit) ==
    SubSeq(seq, skip + 1, IF skip + limit < Len(seq) THEN skip + limit ELSE Len(seq))

\* {"role": r}
ByRole(us, r) == {i \in DOMAIN us : HasField(us[i], "role", r)}

\* services.list_users_by_role(role, skip, limit): role.value is an attribute of a
\* UserRole member; the str that a path parameter is has none
list_users_by_role(role, skip, limit) ==
    IF role.type # "UserRole"
    THEN [res |-> "AttributeError: 'str' object has no attribute 'value'"]
    ELSE LET found == Page(Ascending(ByRole(users, role.value)), skip, limit)
         IN  IF \E n \in 1..Len(found) : ~UserValid(users[found[n]])
             THEN [res |-> "ValidationError"]
             ELSE [res |-> "users",
                   users |-> [n \in 1..Len(found) |->
                                  UserModel(found[n], users[found[n]])]]

\* main.list_users_by_role with the bearer token of the caller: the dependency
\* get_current_user answers 401 before the handler runs; the handler raises its 403
\* inside the try block, whose except clause turns every exception into a 500
main_list_users_by_role(token, role, skip, limit) ==
    LET current_user == get_current_user(token)
    IN  IF current_user.res # "user" THEN [status |-> 401]
        ELSE IF RoleOf(current_user.user.doc) \notin ListRoles
        THEN [status |-> 500, detail |-> "403: Not authorized"]
        ELSE LET r == list_users_by_role([type |-> "str", value |-> role],
                                         skip, limit)
             IN  IF r.res = "users" THEN [status |-> 200, body |-> r.users]
                 ELSE [status |-> 500, detail |-> r.res]

ListUsersByRole(token, role, skip, limit) ==
    /\ last' = [op |-> "list_users_by_role", token |-> token, role |-> role,
                skip |-> skip, limit |-> limit,
                caller |-> get_current_user(token),
                http |-> main_list_users_by_role(token, role, skip, limit)]
    /\ UNCHANGED <<users, nextId, now, tokens, logout_logs, transactions, tasks, settings, upserts>>

\* payloads of add_employee: a username and one of three roles
RolePayloads ==
    {[username |-> u, role |-> r] : u \in {"alice"}, r \in {"admin", "support", "student"}}

NextList ==
    \/ \E d \in RolePayloads : AddEmployee(d)
    \/ \E i \in IdStrings : GenerateAccessToken(i, "admin")
    \/ \E t \in Presentable, r \in {"admin", "student"}, s \in {0, 1} :
           ListUsersByRole(t, r, s, 1)

SpecList == Init /\ [][NextList]_vars

\* C11: at GET /users/{role} an authenticated caller whose stored role is admin or
\* support gets the page of users with the requested role, and an authenticated
\* caller with any other role gets the 403 outcome.
C11_AdminAndSupportMayList ==
    (last.op = "list_users_by_role" /\ last.caller.res = "user") =>
        IF RoleOf(last.caller.user.doc) \in {"admin", "support"}
        THEN /\ last.http.status = 200
             /\ Len(last.http.body) <= last.limit
             /\ \A n \in 1..Len(last.http.body) :
                    RoleOf(last.http.body[n].doc) = last.role
        ELSE last.http.status = 403

-----------------------------------------------------------------------------
(* Students and employees are stored, archived and deleted *)

NextDelete ==
    \/ \E d \in AddPayloads : AddStudent(d)
    \/ \E d \in RolePayloads : AddEmployee(d)
    \/ \E i \in IdStrings, a \in BOOLEAN : DeleteStudent(i, a)

SpecDelete == Init /\ [][NextDelete]_vars

-----------------------------------------------------------------------------
(* Claims about deleting and updating records, checked under SpecDelete and *)
(* SpecDir                                                                  *)

\* a call of delete_student on the id of a stored student: archiving keeps the
\* record, sets is_active to false and keeps every other field, and the record is
\* as retrievable by id as it was; deleting removes it and get_user_by_id finds
\* nothing
C12_DeleteStep ==
    \A id \in IdStrings :
        (/\ last'.op = "delete_student" /\ last'.id = id
         /\ ObjectIdValid(id) /\ StudentById(users, id[2]) # {}) =>
            IF last'.archive
            THEN /\ id[2] \in DOMAIN users'
                 /\ DOMAIN users'[id[2]] = DOMAIN users[id[2]] \cup {"is_active"}
                 /\ users'[id[2]]["is_active"] = FALSE
                 /\ \A f \in DOMAIN users[id[2]] \ {"is_active"} :
                        users'[id[2]][f] = users[id[2]][f]
                 /\ get_user_by_id(id).res = "user" =>
                        get_user_by_id(id)' =
                            [res |-> "user", user |-> UserModel(id[2], users'[id[2]])]
            ELSE get_user_by_id(id)' = [res |-> "None"]

\* C12: for an existing student record, delete_student(id, archive=true) leaves the
\* record retrievable by id with is_active = false and every other field unchanged,
\* and delete_student(id, archive=false) removes it so that get_user_by_id(id)
\* finds nothing.
C12_ArchiveKeepsDeleteRemoves == [][C12_DeleteStep]_vars

\* a student was archived: the record is retrievable and inactive
C12_Witness ==
    /\ last.op = "delete_student" /\ last.archive /\ last.res = "True"
    /\ get_user_by_id(last.id).res = "user"
    /\ get_user_by_id(last.id).user.doc["is_active"] = FALSE
    /\ get_user_by_id(last.id).user.doc["role"] = "student"
    /\ "username" \in DOMAIN get_user_by_id(last.id).user.doc

\* a call of delete_student with a well-formed id reports success when a student
\* record matches the id and not-found when none does
C13_DeleteReportStep ==
    \A id \in IdStrings :
        (last'.op = "delete_student" /\ last'.id = id /\ ObjectIdValid(id)) =>
            IF StudentById(users, id[2]) # {}
            THEN last'.res = "True"
            ELSE last'.res = "False"

\* C13: in both modes delete_student reports not-found exactly when no record
\* matches the given id and reports success whenever a record matches, including
\* when it archives a record that is already inactive.
C13_DeleteReportsMatch == [][C13_DeleteReportStep]_vars

UpdateOps == {"update_student", "update_employee", "update_user_profile"}

\* the records the filter of an update or delete call selects before the call
MatchedBy(op, id) == IF op \in {"update_student", "delete_student"}
                     THEN StudentById(users, id[2])
                     ELSE ById(users, id[2])

\* a call of an update with a well-formed id reports not-found, and changes
\* nothing, when no record matches; when one matches it reports Updated, the
\* record has the supplied fields with the supplied values and its other fields
\* as they were, and no other record changes
C14_UpdateStep ==
    \A id \in IdStrings :
        (last'.op \in UpdateOps /\ last'.id = id /\ ObjectIdValid(id)) =>
            IF MatchedBy(last'.op, id) = {}
            THEN last'.res = "False" /\ users' = users
            ELSE /\ last'.res = "True"
                 /\ DOMAIN users' = DOMAIN users
                 /\ \A j \in DOMAIN users \ {id[2]} : users'[j] = users[j]
                 /\ DOMAIN users'[id[2]] = DOMAIN users[id[2]] \cup DOMAIN last'.data
                 /\ \A f \in DOMAIN last'.data : users'[id[2]][f] = last'.data[f]
                 /\ \A f \in DOMAIN users[id[2]] \ DOMAIN last'.data :
                        users'[id[2]][f] = users[id[2]][f]

\* C14: an update (update_student, update_employee, update_user_profile) reports
\* not-found exactly when no record matches the given id; when a record matches it
\* reports Updated, overwrites only the supplied fields and leaves every absent
\* field of that record and every other record untouched.
C14_UpdateMergesOrNotFound == [][C14_UpdateStep]_vars

\* the response to an update or delete call: 404 when the id is well formed and
\* matches no record, and 400 for no call that found or changed its record
C15_ResponseStep ==
    \A id \in IdStrings :
        (last'.op \in UpdateOps \cup {"delete_student"} /\ last'.id = id) =>
            /\ (ObjectIdValid(id) /\ MatchedBy(last'.op, id) = {}) => last'.http = 404
            /\ last'.http = 400 => last'.res \notin {"True", "False"}

\* C15: at the HTTP boundary, when a student update, student delete, employee
\* update or profile update targets an id that matches no record, the response
\* status is 404; the 400 status is returned only for validation or other failures
\* of the request.
C15_NotFoundIs404 == [][C15_ResponseStep]_vars

-----------------------------------------------------------------------------
(* services.py: the payroll batch *)

PayrollRoles == {"teacher", "admin", "support"}

\* find over every role in PayrollRoles, whatever is_active says
PayrollStaffOfAnyStatus(us) ==
    {i \in DOMAIN us : "role" \in DOMAIN us[i] /\ us[i]["role"] \in PayrollRoles}

\* {"is_active": True, "role": {"$in": ["teacher", "admin", "support"]}}
PayrollStaff(us) ==
    {i \in DOMAIN us : /\ HasField(us[i], "is_active", TRUE)
                       /\ "role" \in DOMAIN us[i] /\ us[i]["role"] \in PayrollRoles}

\* employee.get('salary', 0)
SalaryOf(doc) == IF "salary" \in DOMAIN doc THEN doc["salary"] ELSE 0

\* Transaction.amount: float = Field(ge=0)
AmountOk(a) == a >= 0

\* period.strftime('%B %Y') of the period <<year, month, day>>
MonthYear(period) == <<period[2], period[1]>>

\* Transaction(user_id=..., amount=..., ...).dict(): the fields by their names, id
\* and invoice_number at their default None
TransactionDict(k, amount, period) ==
    [id |-> NoneId, user_id |-> <<"oid", k>>, amount |-> amount,
     transaction_type |-> "salary",
     description |-> <<"Salary for", MonthYear(period)>>,
     date |-> period, category |-> "payroll", payment_method |-> "bank_transfer",
     status |-> "processed", invoice_number |-> "None"]

\* insert_many that skips a document whose (user_id, date) is stored already
InsertManyOnce(coll, docs) ==
    coll \o SelectSeq(docs, LAMBDA d :
                \A n \in 1..Len(coll) :
                    coll[n].user_id # d.user_id \/ coll[n].date # d.date)

\* insert_many(docs): the documents are stored in the order given
InsertMany(coll, docs) == coll \o docs

\* process_payroll(period): the Transaction of an employee whose salary is negative
\* raises ValidationError before anything is inserted
process_payroll(period) ==
    LET employees == Ascending(PayrollStaff(users))
        payroll_transactions ==
            [n \in 1..Len(employees) |->
                 TransactionDict(employees[n], SalaryOf(users[employees[n]]), period)]
    IN  IF \E n \in 1..Len(employees) : ~AmountOk(SalaryOf(users[employees[n]]))
        THEN [raised |-> "ValidationError", count |-> 0,
              transactions |-> transactions]
        ELSE [raised |-> "none", count |-> Len(payroll_transactions),
              transactions |-> IF Len(payroll_transactions) > 0
                               THEN InsertMany(transactions, payroll_transactions)
                               ELSE transactions]

\* main.process_payroll: the count in a message, 500 on any exception
main_process_payroll(r) == IF r.raised = "none" THEN 200 ELSE 500

\* runs counts the calls in a row for one period, with no other operation between
\* them, and base is the size of db.transactions before the first of them
ProcessPayroll(period) ==
    LET r == process_payroll(period)
        again == last.op = "process_payroll" /\ last.period = period
        runs == IF again THEN last.runs + 1 ELSE 1
    IN  /\ runs <= MaxRuns
        /\ Len(r.transactions) <= MaxTransactions
        /\ transactions' = r.transactions
        /\ last' = [op |-> "process_payroll", period |-> period,
                    raised |-> r.raised, count |-> r.count,
                    http |-> main_process_payroll(r), runs |-> runs,
                    base |-> IF again THEN last.base ELSE Len(transactions)]
        /\ UNCHANGED <<users, nextId, now, tokens, logout_logs, tasks, settings, upserts>>

Periods == {<<2024, 1, 1>>, <<2024, 1, 15>>}

\* payloads of add_employee: staff and others, active, inactive or with no
\* is_active field, with a salary, a negative one or none
PayrollPayloads ==
    {[username |-> "alice", role |-> "teacher", is_active |-> TRUE, salary |-> 3],
     [username |-> "bob", role |-> "admin", is_active |-> TRUE],
     [username |-> "bob", role |-> "support", is_active |-> TRUE, salary |-> -1],
     [username |-> "alice", role |-> "teacher", is_active |-> FALSE, salary |-> 3],
     [username |-> "alice", role |-> "student", is_active |-> TRUE, salary |-> 3],
     [username |-> "bob", role |-> "temporary", is_active |-> TRUE, salary |-> 3],
     [username |-> "bob", role |-> "teacher", salary |-> 3]}

NextPayroll ==
    \/ \E d \in PayrollPayloads : AddEmployee(d)
    \/ \E p \in Periods : ProcessPayroll(p)

SpecPayroll == Init /\ [][NextPayroll]_vars

-----------------------------------------------------------------------------
(* Claims about the payroll batch, checked under SpecPayroll *)

\* the users a payroll run is to pay: is_active is stored as true and the role is
\* teacher, admin or support
ActiveStaff ==
    {i \in Ids : /\ HasField(users[i], "is_active", TRUE)
                 /\ \E r \in {"teacher", "admin", "support"} :
                        HasField(users[i], "role", r)}

\* the positions of db.transactions that the step appends
Added == (Len(transactions) + 1)..Len(transactions')

\* the step appends one salary transaction dated with the period of the call for
\* each of ActiveStaff, its amount the stored salary or 0, and nothing else, and
\* the call returns their number
PaysActiveStaff ==
    /\ last'.raised = "none"
    /\ last'.count = Cardinality(ActiveStaff)
    /\ Len(transactions') = Len(transactions) + last'.count
    /\ SubSeq(transactions', 1, Len(transactions)) = transactions
    /\ \A n \in Added :
           /\ transactions'[n].user_id[2] \in ActiveStaff
           /\ transactions'[n].transaction_type = "salary"
           /\ transactions'[n].date = last'.period
           /\ transactions'[n].amount =
                  IF "salary" \in DOMAIN users[transactions'[n].user_id[2]]
                  THEN users[transactions'[n].user_id[2]]["salary"] ELSE 0
    /\ \A i \in ActiveStaff :
           Cardinality({n \in Added : transactions'[n].user_id = <<"oid", i>>}) = 1

C16_PayrollStep == last'.op = "process_payroll" => PaysActiveStaff

C16_AmendedStep ==
    last'.op = "process_payroll" =>
        IF \A i \in ActiveStaff :
               "salary" \in DOMAIN users[i] => users[i]["salary"] >= 0
        THEN PaysActiveStaff
        ELSE /\ last'.raised = "ValidationError"
             /\ last'.http = 500
             /\ transactions' = transactions

StoredInRow(i) ==
    {n \in (last.base + 1)..Len(transactions) :
        /\ transactions[n].user_id = <<"oid", i>>
        /\ transactions[n].date = last.period
        /\ transactions[n].transaction_type = "salary"}

\* k runs in a row against n active staff have stored k*n salary transactions, k
\* for each of the staff
RunsTimesStaff ==
    /\ Len(transactions) = last.base + last.runs * Cardinality(ActiveStaff)
    /\ \A i \in ActiveStaff : Cardinality(StoredInRow(i)) = last.runs

-----------------------------------------------------------------------------
(* Claims about what a login changes, checked under SpecAuth *)

\* a login that succeeds stores the time of the login as the last_login of the user
\* who logged in and changes nothing else; a login that fails changes no record
C18_LoginStep ==
    last'.op = "login" =>
        IF last'.res.res = "token"
        THEN /\ DOMAIN users' = DOMAIN users
             /\ HasField(users'[last'.uid], "last_login", now)
             /\ \A f \in DOMAIN users[last'.uid] \ {"last_login"} :
                    HasField(users'[last'.uid], f, users[last'.uid][f])
             /\ \A j \in DOMAIN users \ {last'.uid} : users'[j] = users[j]
        ELSE users' = users

\* C18: a successful login mutates the user record by refreshing its last-login
\* timestamp; a failed login leaves the user collection unchanged.
C18_LoginRefreshesLastLogin == [][C18_LoginStep]_vars

-----------------------------------------------------------------------------
(* services.create_user as a coroutine: it runs from one await to the next, and *)
(* other coroutines run while it waits for db.users                            *)

\* bcrypt.gensalt() in the task t: fresh for every task and every insert
TaskSalt(t) == nextId * (MaxTasks + 1) + t

\* the task after the event loop resumes it once, and db.users after that.
\* "start": the checks of the payload, up to the await of find_one.
\* "find_one": the answer of the duplicate lookup, the hash and the document, up to
\* the await of insert_one.  "insert_one": the insert, and the id returned.
create_user_resumed(t) ==
    LET task == tasks[t]
        user_data == task.data
        raise(e) == [task |-> [task EXCEPT !.pc = "done", !.res = e], users |-> users]
    IN  CASE task.pc = "start" ->
                 IF {"username", "password", "email", "role"} \ DOMAIN user_data # {}
                 THEN raise("ValueError: Missing required field")
                 ELSE IF user_data["role"] \notin UserRole
                 THEN raise("ValueError: Invalid user role")
                 ELSE IF ~NameBound("re")
                 THEN raise("NameError: name 're' is not defined")
                 ELSE IF ~EmailShapeOk(user_data["email"])
                 THEN raise("ValueError: Invalid email format")
                 ELSE [task |-> [task EXCEPT !.pc = "find_one"], users |-> users]
          [] task.pc = "find_one" ->
                 IF ByUsernameOrEmail(users, user_data["username"],
                                      user_data["email"]) # {}
                 THEN raise("ValueError: Username or email already exists")
                 ELSE [task |-> [task EXCEPT
                                   !.pc = "insert_one",
                                   !.doc = [username |-> user_data["username"],
                                            email |-> user_data["email"],
                                            password |->
                                                Hashpw(user_data["password"][2],
                                                       TaskSalt(t)),
                                            role |-> user_data["role"],
                                            is_active |-> TRUE,
                                            created_at |-> now,
                                            updated_at |-> now]],
                       users |-> users]
          [] task.pc = "insert_one" ->
                 [task |-> [task EXCEPT !.pc = "done", !.res = "ok",
                                        !.id = <<"hex", nextId>>],
                  users |-> InsertOne(users, nextId, task.doc)]

\* a request arrives: a create_user coroutine is created for its payload
StartCreateUser(user_data) ==
    /\ Len(tasks) < MaxTasks
    /\ tasks' = Append(tasks, [pc |-> "start", data |-> user_data, res |-> "none",
                               id |-> NoneId, doc |-> NoFields])
    /\ last' = [op |-> "start_create_user", task |-> Len(tasks) + 1]
    /\ UNCHANGED <<users, nextId, now, tokens, logout_logs, transactions, settings, upserts>>

\* the event loop resumes the coroutine t
ResumeCreateUser(t) ==
    /\ tasks[t].pc # "done"
    /\ LET r == create_user_resumed(t)
       IN  /\ r.users # users => nextId <= MaxUsers
           /\ tasks' = [tasks EXCEPT ![t] = r.task]
           /\ users' = r.users
           /\ nextId' = IF r.users # users THEN nextId + 1 ELSE nextId
           /\ last' = [op |-> "resume_create_user", task |-> t, pc |-> r.task.pc]
    /\ UNCHANGED <<now, tokens, logout_logs, transactions, settings, upserts>>

\* payloads of create_user: two that share a username, two that share an email,
\* one with no email
TaskPayloads ==
    {[username |-> u, password |-> <<"str", "longenough1", "">>, email |-> e,
      role |-> "teacher"] : u \in Usernames, e \in {GoodEmail, <<"b", "@", "x", ".", "c">>}}
        \cup {[username |-> "alice", password |-> <<"str", "longenough1", "">>,
               role |-> "teacher"]}

NextTasks ==
    \/ \E d \in TaskPayloads : StartCreateUser(d)
    \/ \E t \in DOMAIN tasks : ResumeCreateUser(t)
    \/ \E d \in BearerPayloads : AddStudent(d)

SpecTasks == Init /\ [][NextTasks]_vars

-----------------------------------------------------------------------------
(* Claims about concurrent registrations, checked under SpecTasks *)

\* two tasks whose payloads are valid and carry the same username or the same email
Rivals(s, t) ==
    /\ s # t
    /\ ValidPayload(tasks[s].data) /\ ValidPayload(tasks[t].data)
    /\ \/ tasks[s].data["username"] = tasks[t].data["username"]
       \/ tasks[s].data["email"] = tasks[t].data["email"]

-----------------------------------------------------------------------------
(* Archived users: students with a password are archived, log in and present *)
(* their tokens                                                              *)

\* payloads of add_student: a username and a password
PasswordPayloads ==
    {[username |-> u, password |-> <<"str", "longenough1", "">>] : u \in Usernames}

NextArchive ==
    \/ \E d \in PasswordPayloads : AddStudent(d)
    \/ \E i \in IdStrings : DeleteStudent(i, TRUE)
    \/ \E u \in Usernames, q \in Plaintexts : Login(u, q)
    \/ \E t \in Presentable : GetCurrentUser(t)
    \/ Tick

SpecArchive == Init /\ [][NextArchive]_vars

Archived(k) == k \in Ids /\ HasField(users[k], "is_active", FALSE)

\* C20: the outcome of authenticate_user does not depend on is_active: after a user
\* has been archived, a login with that user's correct password still succeeds and
\* issues a token, and get_current_user still resolves that token to the archived
\* user.
C20_ArchivedUserStillAuthenticates ==
    /\ (LoggedIn /\ RightPassword /\ Archived(last.uid)) => last.res.res = "token"
    /\ \A t \in tokens :
           (/\ last.op = "get_current_user" /\ last.token = t.tok
            /\ t.by = "login" /\ Unexpired(t) /\ Archived(t.uid)) =>
               /\ last.res.res = "user"
               /\ last.res.user.doc = users[t.uid]

-----------------------------------------------------------------------------
(* Passwords: records are stored with and without one, and updates carry one *)

\* the fields an update call supplies: a new password, or a new username
PasswordUpdates == {("password" :> <<"str", "longenough2", "">>), ("username" :> "bob")}

\* a registration payload that passes the field and role checks
RegisterPayloads ==
    {[username |-> "alice", password |-> <<"str", "longenough1", "">>,
      email |-> GoodEmail, role |-> "student"]}

NextPassword ==
    \/ \E d \in RegisterPayloads : CreateUser(d)
    \/ \E d \in AuthPayloads : AddStudent(d)
    \/ \E d \in AuthPayloads : AddEmployee(d)
    \/ \E i \in IdStrings, u \in PasswordUpdates : UpdateStudent(i, u)
    \/ \E i \in IdStrings, u \in PasswordUpdates : UpdateEmployee(i, u)
    \/ \E i \in IdStrings, u \in PasswordUpdates : UpdateUserProfile(i, u)

SpecPassword == Init /\ [][NextPassword]_vars

\* C21: in every reachable state, after any sequence of create_user, add_student,
\* add_employee, update_student, update_employee and update_user_profile calls, the
\* password field of every stored user record that has one holds a digest produced
\* by the hasher and never a plaintext secret supplied by a caller.
C21_StoredPasswordIsDigest ==
    \A i \in Ids :
        "password" \in DOMAIN users[i] =>
            /\ users[i]["password"][1] = "bcrypt"
            /\ \A p \in Plaintexts : users[i]["password"] # <<"str", p, "">>

-----------------------------------------------------------------------------
(* services.update_system_settings: one update_one({}, {"$set": ...}, upsert=True) *)
(* on db.settings.  Each call is a task that waits for the store, and the store  *)
(* runs the commands of several tasks at once: it first looks for a document      *)
(* that matches the filter, then either updates the one it found or, having      *)
(* found none, inserts a new one.  No index makes the second of two such inserts *)
(* fail.                                                                         *)

\* the filter {}: the first document of the collection, 0 when it has none
FirstSetting(coll) == IF Len(coll) > 0 THEN 1 ELSE 0

\* the write of an upsert that found nothing to match inserts the $set fields; the
\* write of one that matched applies them to the matched document
UpsertWrite(coll, found, upd) ==
    IF found = 0 THEN Append(coll, upd)
    ELSE [coll EXCEPT ![found] = upd @@ coll[found]]

\* update_system_settings(settings_data) returns result.modified_count > 0: False
\* for the call that inserts, and for a call that changes nothing
update_system_settings(coll, found, settings_data) ==
    IF found = 0 THEN "False"
    ELSE Bool(UpsertWrite(coll, found, settings_data) # coll)

\* main.update_system_settings: {"success": success}, 400 on any exception
main_update_system_settings(success) == [status |-> 200, success |-> success]

\* PUT /system/settings arrives: the task sends its command and waits
StartUpdateSettings(settings_data) ==
    /\ Len(upserts) < MaxUpserts
    /\ upserts' = Append(upserts, [pc |-> "sent", data |-> settings_data,
                                   found |-> 0, wrote |-> 0])
    /\ last' = [op |-> "start_update_system_settings", task |-> Len(upserts) + 1]
    /\ UNCHANGED <<users, nextId, now, tokens, logout_logs, transactions, tasks,
                   settings>>

\* the store evaluates the filter of the command of task t
StoreMatches(t) ==
    /\ upserts[t].pc = "sent"
    /\ upserts' = [upserts EXCEPT ![t].pc = "matched",
                                  ![t].found = FirstSetting(settings)]
    /\ last' = [op |-> "store_matches", task |-> t]
    /\ UNCHANGED <<users, nextId, now, tokens, logout_logs, transactions, tasks,
                   settings>>

\* the store writes for the command of task t, and the task returns; wrote is the
\* position of this write among the writes so far
StoreWrites(t) ==
    /\ upserts[t].pc = "matched"
    /\ settings' = UpsertWrite(settings, upserts[t].found, upserts[t].data)
    /\ upserts' = [upserts EXCEPT
                     ![t].pc = "done",
                     ![t].wrote = 1 + Cardinality({s \in DOMAIN upserts :
                                                      upserts[s].pc = "done"})]
    /\ last' = [op |-> "update_system_settings", task |-> t,
                res |-> update_system_settings(settings, upserts[t].found,
                                               upserts[t].data),
                http |-> main_update_system_settings(
                             update_system_settings(settings, upserts[t].found,
                                                    upserts[t].data))]
    /\ UNCHANGED <<users, nextId, now, tokens, logout_logs, transactions, tasks>>

SettingsPayloads ==
    {("theme" :> "dark"), ("theme" :> "light"), ("term" :> "spring")}

NextSettings ==
    \/ \E d \in SettingsPayloads : StartUpdateSettings(d)
    \/ \E t \in DOMAIN upserts : StoreMatches(t)
    \/ \E t \in DOMAIN upserts : StoreWrites(t)

SpecSettings == Init /\ [][NextSettings]_vars

-----------------------------------------------------------------------------
(* Claims about the settings collection, checked under SpecSettings *)

\* the calls that have returned
Returned == {t \in DOMAIN upserts : upserts[t].pc = "done"}

\* the fields set so far, each with the value of the latest call that set it
MergedSettings ==
    [f \in UNION {DOMAIN upserts[t].data : t \in Returned} |->
        LET setters == {t \in Returned : f \in DOMAIN upserts[t].data}
            latest == CHOOSE t \in setters :
                          \A s \in setters : upserts[s].wrote <= upserts[t].wrote
        IN  upserts[latest].data[f]]

\* C22: after any sequence of update_system_settings calls, including calls that
\* run as interleaved tasks on an initially empty settings collection, the settings
\* collection holds at most one document, which carries the merge of all fields
\* set so far.
C22_OneMergedSettingsDocument ==
    /\ Len(settings) <= 1
    /\ Len(settings) = 1 => settings[1] = MergedSettings

-----------------------------------------------------------------------------
(* Every operation together.  SpecDir, SpecToken, SpecAuth, SpecBearer, SpecList, *)
(* SpecDelete, SpecPayroll, SpecTasks, SpecArchive, SpecPassword and            *)
(* SpecSettings are this specification restricted to                            *)
(* the operations and the inputs that one group of properties is about.         *)

Next ==
    \/ \E d \in CreatePayloads : CreateUser(d)
    \/ \E r \in {"student", "bogus"}, d \in CreatePayloads : RegisterUser(r, d)
    \/ \E d \in AddPayloads \cup AuthPayloads : AddStudent(d)
    \/ \E d \in AddPayloads \cup EmployeePayloads \cup RolePayloads \cup PayrollPayloads :
           AddEmployee(d)
    \/ \E i \in IdStrings, u \in Updates \cup PasswordUpdates : UpdateStudent(i, u)
    \/ \E i \in IdStrings, u \in Updates \cup PasswordUpdates : UpdateEmployee(i, u)
    \/ \E i \in IdStrings, u \in Updates \cup PasswordUpdates : UpdateUserProfile(i, u)
    \/ \E i \in IdStrings, a \in BOOLEAN : DeleteStudent(i, a)
    \/ \E i \in IdStrings : GenerateAccessToken(i, "student")
    \/ \E t \in Presentable : VerifyAccessToken(t)
    \/ \E t \in Presentable : GetCurrentUser(t)
    \/ \E u \in Usernames, q \in Plaintexts : Login(u, q)
    \/ \E i \in IdStrings : HandleUserLogout(i)
    \/ \E t \in Presentable, r \in {"admin", "student"}, k \in {0, 1} :
           ListUsersByRole(t, r, k, 1)
    \/ \E p \in Periods : ProcessPayroll(p)
    \/ \E d \in TaskPayloads : StartCreateUser(d)
    \/ \E t \in DOMAIN tasks : ResumeCreateUser(t)
    \/ \E d \in SettingsPayloads : StartUpdateSettings(d)
    \/ \E t \in DOMAIN upserts : StoreMatches(t)
    \/ \E t \in DOMAIN upserts : StoreWrites(t)
    \/ Tick

Spec == Init /\ [][Next]_vars

====
